---- MODULE Spec2Model ----
(***************************************************************************)
(* A model of bulkmt (src/bulkmt.cpp): the pipeline that RunBulk builds.   *)
(*                                                                         *)
(*   ConsoleInput -> BatchCommandProcessor -> ThreadedCommandProcessor     *)
(*                                             "file" (2 worker threads)   *)
(*                                             "log"  (1 worker thread)    *)
(*                                                                         *)
(* The calling thread ("main") runs ConsoleInput::ProcessLine and          *)
(* ConsoleInput::Stop; every worker thread runs ThreadProc.  A step of a   *)
(* thread is a piece of its code between two accesses to what the threads  *)
(* share: mQueue, mQueueMutex, mCondition and mDone of one dispatcher.     *)
(*                                                                         *)
(* A Command is [mText, mTimestamp]; system_clock::now() is the logical    *)
(* clock "number of lines read so far", so two commands of one run differ. *)
(* CommandProcessor::mCounters is thread_local static: there is one        *)
(* Counters object per thread, shared by every node that runs on it.       *)
(*                                                                         *)
(* Spec and PipeSpec start where RunBulk has built the pipeline; MainSpec  *)
(* starts at the entry of main, with the argument list of the process.     *)
(***************************************************************************)
EXTENDS Integers, Sequences, FiniteSets, TLC

\* ------------------------------------------------------------------ bounds
MaxLines == 2       \* Spec: lines the calling thread feeds to ProcessLine
MaxBulk == 2        \* Spec: bulk sizes 1 .. MaxBulk
MaxPipeLines == 5   \* PipeSpec: lines the calling thread feeds to ProcessLine
MaxPipeBulk == 3    \* PipeSpec: bulk sizes 1 .. MaxPipeBulk
MaxStops == 2       \* calls of ConsoleInput::Stop
TicksPerSecond == 2 \* lines read within one second of the clock
MaxArgLen == 2      \* MainSpec: characters of the bulk-size argument
MaxMainLines == 2   \* MainSpec: lines RunBulk reads

\* ------------------------------------------------- the pipeline of RunBulk
FileThreads == 2
LogThreads == 1
DispatcherOrder == <<"file", "log">>
Dispatchers == {"file", "log"}
NThreads(d) == IF d = "file" THEN FileThreads ELSE LogThreads
\* mThreads of a dispatcher: thread i is named aName << i.
ThreadNames == [file |-> <<"file0", "file1">>, log |-> <<"log0">>]
mThreads(d) == SubSeq(ThreadNames[d], 1, NThreads(d))
WorkersOf(d) == {mThreads(d)[i] : i \in 1 .. NThreads(d)}
Workers == UNION {WorkersOf(d) : d \in Dispatchers}
DispatcherOf(w) == CHOOSE d \in Dispatchers : w \in WorkersOf(d)
Threads == {"main"} \cup Workers
Nodes == {"input", "batch"} \cup Dispatchers \cup Workers

Lines == {"{", "}", "cmd"}

VARIABLES
    input,          \* the lines ProcessLine has been called with, in order
    mBlockDepth,    \* ConsoleInput::mBlockDepth
    mBulkSize,      \* BatchCommandProcessor::mBulkSize
    mBlockForced,   \* BatchCommandProcessor::mBlockForced
    mCommandBatch,  \* BatchCommandProcessor::mCommandBatch
    mCounters,      \* thread -> the thread_local Counters of that thread
    mpc,            \* where the calling thread is
    cont,           \* the handler the calling thread is inside: "line" or "stop"
    cur,            \* the CommandBatch DumpBatch is passing downstream
    todo,           \* the dispatchers the running loop over dependents has left
    jidx,           \* index of the thread Stop joins next
    stops,          \* calls of ConsoleInput::Stop so far
    threw,          \* an exception left ConsoleInput::Stop
    handoff,        \* dispatcher -> the batches its ProcessBatch was called with
    mQueue,         \* dispatcher -> mQueue
    mDone,          \* dispatcher -> mDone
    mQueueMutex,    \* dispatcher -> the thread that holds mQueueMutex, or "free"
    joinable,       \* worker -> std::thread::joinable()
    wpc,            \* worker -> where the thread is in ThreadProc
    queue,          \* worker -> the local queue of ProcessQueue
    wcur,           \* worker -> the batch its sink is processing
    sinkLog,        \* dispatcher -> <<worker, batch>> per sink call, by start
    files,          \* ReportWriter thread -> the names of the files it opened
    report,         \* node -> the counters its last DumpCounters printed
    argv,           \* the arguments of main after the program's name
    exitCode        \* what main returned, or NotExited

pipeVars == <<input, mBlockDepth, mBulkSize, mBlockForced, mCommandBatch>>
mainVars == <<mpc, cont, cur, todo, jidx, stops, threw, handoff>>
dispVars == <<mQueue, mDone, mQueueMutex, joinable>>
workVars == <<wpc, queue, wcur, sinkLog, files>>
argVars == <<argv, exitCode>>
vars == <<pipeVars, mainVars, dispVars, workVars, mCounters, report, argVars>>

\* ------------------------------------------------------------ value types
NoBatch == [mCommands |-> <<>>, mTimestamp |-> 0]
NoReport == [mLineCounter |-> -1, mBlockCounter |-> -1, mCommandCounter |-> -1]
ZeroCounters == [mLineCounter |-> 0, mBlockCounter |-> 0, mCommandCounter |-> 0]

Command(line, now) == [mText |-> line, mTimestamp |-> now]
CommandBatch(commands) == [mCommands |-> commands, mTimestamp |-> commands[1].mTimestamp]
Size(batch) == Len(batch.mCommands)

\* CommandProcessor::ProcessBatch, after the loop over the dependents.
CountBatch(c, batch) ==
    [c EXCEPT !.mBlockCounter = @ + 1, !.mCommandCounter = @ + Size(batch)]

\* ---------------------------------------------- ConsoleInput::ProcessLine
IsCommand(line) == line # "{" /\ line # "}"

\* mBlockDepth after the line's branch has run (++mBlockDepth, --mBlockDepth).
DepthAfter(line, depth) ==
    IF line = "{" THEN depth + 1 ELSE IF line = "}" THEN depth - 1 ELSE depth

\* A mutant of EmitsStartBlock: a "{" never calls StartBlock.
EmitsStartBlock_Never(line, depth) == FALSE

\* if (++mBlockDepth > 0) CommandProcessor::StartBlock();
EmitsStartBlock(line, depth) == line = "{" /\ DepthAfter(line, depth) > 0

\* if (--mBlockDepth == 0) CommandProcessor::FinishBlock();
EmitsFinishBlock(line, depth) == line = "}" /\ DepthAfter(line, depth) = 0

\* What the calling thread adds to its Counters in ConsoleInput::ProcessLine
\* once the accumulator has returned: CommandProcessor::StartBlock and
\* CommandProcessor::ProcessCommand count after their loop, and
\* CommandProcessor::ProcessLine runs in ConsoleInput, in the accumulator and
\* in every dispatcher, each adding one to the same thread_local counter.
LineRet(c, line, started) ==
    [c EXCEPT !.mBlockCounter = IF started THEN @ + 1 ELSE @,
              !.mCommandCounter = IF IsCommand(line) THEN @ + 1 ELSE @,
              !.mLineCounter = @ + 2 + Cardinality(Dispatchers)]

\* ------------------------------------------------- BatchCommandProcessor
\* mBlockForced after StartBlock / FinishBlock.
ForcedAfter(start, finish, forced) ==
    IF start THEN TRUE ELSE IF finish THEN FALSE ELSE forced

\* A mutant of PushBack: the command is inserted at the front.
PushBack_Front(batch, command) == <<command>> \o batch

\* ProcessCommand: mCommandBatch.push_back(command)
PushBack(batch, command) == Append(batch, command)

\* A mutant of SizeFlush: > for >=.
SizeFlush_Strict(forced, pending, bulkSize) == ~forced /\ Len(pending) > bulkSize

\* A mutant of SizeFlush: mBlockForced is not consulted.
SizeFlush_Unforced(forced, pending, bulkSize) == Len(pending) >= bulkSize

\* ProcessCommand: if (!mBlockForced && mCommandBatch.size() >= mBulkSize)
SizeFlush(forced, pending, bulkSize) == ~forced /\ Len(pending) >= bulkSize

\* DumpBatch is called and mCommandBatch is not empty.
Dumps(called, pending) == called /\ pending # <<>>

\* ------------------------------------------------------------------- main
\* A string is a sequence of characters; these are the characters of the
\* arguments tried.
ArgChars == {"0", "1", "2", "-", "x"}
DigitChars == <<"0", "1", "2", "3", "4", "5", "6", "7", "8", "9">>
IsDigit(ch) == \E i \in 1 .. 10 : DigitChars[i] = ch
DigitValue(ch) == (CHOOSE i \in 1 .. 10 : DigitChars[i] = ch) - 1

\* The decimal digits at the start of the string, as a number.
RECURSIVE ParseDigits(_, _)
ParseDigits(str, acc) ==
    IF str = <<>> \/ ~IsDigit(Head(str)) THEN acc
    ELSE ParseDigits(Tail(str), acc * 10 + DigitValue(Head(str)))

\* atoi: an optional sign, then digits up to the first other character; 0
\* when there is no digit.  (No argument tried starts with white space or
\* is long enough to overflow an int.)
atoi(str) ==
    IF str = <<>> THEN 0
    ELSE IF Head(str) = "-" THEN 0 - ParseDigits(Tail(str), 0)
    ELSE IF Head(str) = "+" THEN ParseDigits(Tail(str), 0)
    ELSE ParseDigits(str, 0)

\* The decimal string of a natural number.
RECURSIVE Decimal(_)
Decimal(n) ==
    IF n < 10 THEN <<DigitChars[n + 1]>>
    ELSE Append(Decimal(n \div 10), DigitChars[(n % 10) + 1])

\* BatchCommandProcessor(size_t bulkSize, ...) called with an int: the value
\* modulo SizeModulus.  size_t has 64 bits; the model's integers have 32, so
\* SizeModulus stands for 2^64: like it, it is larger than any size a
\* vector of the model reaches.
SizeModulus == 2 ^ 30
ToSizeT(n) == n % SizeModulus

\* main has not returned.
NotExited == <<>>

\* argc < 2
NoArgument(args) == Len(args) + 1 < 2

\* if (bulkSize == 0)
InvalidBulkSize(bulkSize) == bulkSize = 0

\* main returns 1 at one of its two tests.
UsageError(args) ==
    IF NoArgument(args) THEN TRUE ELSE InvalidBulkSize(atoi(args[1]))

\* The state RunBulk(bulkSize) has built when it starts to read lines: the
\* members as the constructors set them, every worker thread created.
RunBulk(bulkSizes) ==
    /\ input = <<>>
    /\ mBlockDepth = 0
    /\ mBulkSize \in bulkSizes
    /\ mBlockForced = FALSE
    /\ mCommandBatch = <<>>
    /\ mCounters = [t \in Threads |-> ZeroCounters]
    /\ mpc = "idle"
    /\ cont = "line"
    /\ cur = NoBatch
    /\ todo = <<>>
    /\ jidx = 0
    /\ stops = 0
    /\ threw = FALSE
    /\ handoff = [d \in Dispatchers |-> <<>>]
    /\ mQueue = [d \in Dispatchers |-> <<>>]
    /\ mDone = [d \in Dispatchers |-> FALSE]
    /\ mQueueMutex = [d \in Dispatchers |-> "free"]
    /\ joinable = [w \in Workers |-> TRUE]
    /\ wpc = [w \in Workers |-> "loop"]
    /\ queue = [w \in Workers |-> <<>>]
    /\ wcur = [w \in Workers |-> NoBatch]
    /\ sinkLog = [d \in Dispatchers |-> <<>>]
    /\ files = [w \in WorkersOf("file") |-> <<>>]
    /\ report = [n \in Nodes |-> NoReport]
    /\ argv = <<Decimal(mBulkSize)>>
    /\ exitCode = NotExited

\* ConsoleInput::ProcessLine(line), up to the first call that touches a
\* dispatcher: the branch on the line, the accumulator's StartBlock,
\* FinishBlock or ProcessCommand, and DumpBatch up to the hand-off.  When
\* nothing is dumped the handler runs to its end here.
ProcessLine(line) ==
    /\ mpc = "idle"
    /\ LET start == EmitsStartBlock(line, mBlockDepth)
           finish == EmitsFinishBlock(line, mBlockDepth)
           pending == IF IsCommand(line)
                      THEN PushBack(mCommandBatch, Command(line, Len(input) + 1))
                      ELSE mCommandBatch
           called == \/ start
                     \/ finish
                     \/ IsCommand(line) /\ SizeFlush(mBlockForced, pending, mBulkSize)
       IN /\ input' = Append(input, line)
          /\ mBlockDepth' = DepthAfter(line, mBlockDepth)
          /\ mBlockForced' = ForcedAfter(start, finish, mBlockForced)
          /\ mCommandBatch' = pending
          /\ IF Dumps(called, pending)
             THEN /\ cur' = CommandBatch(pending)
                  /\ todo' = DispatcherOrder
                  /\ mpc' = "ProcessBatch"
                  /\ cont' = "line"
                  /\ UNCHANGED mCounters
             ELSE /\ mCounters' = [mCounters EXCEPT !["main"] = LineRet(@, line, start)]
                  /\ UNCHANGED <<cur, todo, mpc, cont>>
    /\ UNCHANGED <<argVars, mBulkSize, jidx, stops, threw, handoff, dispVars, workVars, report>>

\* ------------------------------- ThreadedCommandProcessor::ProcessBatch
\* A mutant of Dropped: the test of mDone is missing.
Dropped_Never(done) == FALSE

\* if (mDone) return;
Dropped(done) == done

\* notify_all: every thread blocked in mCondition.wait is made runnable.
NotifyAll(pcs, d) ==
    [w \in Workers |-> IF w \in WorkersOf(d) /\ pcs[w] = "blocked" THEN "woken" ELSE pcs[w]]

\* The call on a stopped dispatcher returns at once.
ProcessBatch_Done(d) ==
    /\ mpc = "ProcessBatch"
    /\ todo # <<>> /\ d = Head(todo)
    /\ Dropped(mDone[d])
    /\ handoff' = [handoff EXCEPT ![d] = Append(@, cur)]
    /\ todo' = Tail(todo)
    /\ UNCHANGED <<argVars, pipeVars, mpc, cont, cur, jidx, stops, threw, dispVars, workVars,
                   mCounters, report>>

\* { lock_guard lk(mQueueMutex); mQueue.push(commandBatch); }
ProcessBatch_Push(d) ==
    /\ mpc = "ProcessBatch"
    /\ todo # <<>> /\ d = Head(todo)
    /\ ~Dropped(mDone[d])
    /\ mQueueMutex[d] = "free"
    /\ mQueue' = [mQueue EXCEPT ![d] = Append(@, cur)]
    /\ handoff' = [handoff EXCEPT ![d] = Append(@, cur)]
    /\ mpc' = "notify"
    /\ UNCHANGED <<argVars, pipeVars, cont, cur, todo, jidx, stops, threw, mDone, mQueueMutex,
                   joinable, workVars, mCounters, report>>

\* mCondition.notify_all(); CommandProcessor::ProcessBatch(commandBatch);
ProcessBatch_Notify(d) ==
    /\ mpc = "notify"
    /\ d = Head(todo)
    /\ wpc' = NotifyAll(wpc, d)
    /\ mCounters' = [mCounters EXCEPT !["main"] = CountBatch(@, cur)]
    /\ todo' = Tail(todo)
    /\ mpc' = "ProcessBatch"
    /\ UNCHANGED <<argVars, pipeVars, cont, cur, jidx, stops, threw, handoff, dispVars,
                   queue, wcur, sinkLog, files, report>>

\* The accumulator's CommandProcessor::ProcessBatch has called every
\* dispatcher: it counts the batch, DumpBatch clears mCommandBatch, and the
\* handler that called DumpBatch goes on.
DumpBatch_Ret ==
    /\ mpc = "ProcessBatch"
    /\ todo = <<>>
    /\ mCommandBatch' = <<>>
    /\ cur' = NoBatch
    /\ IF cont = "line"
       THEN /\ mCounters' = [mCounters EXCEPT !["main"] =
                  LineRet(CountBatch(@, cur), input[Len(input)],
                          input[Len(input)] = "{" /\ mBlockDepth > 0)]
            /\ mpc' = "idle"
       ELSE /\ mCounters' = [mCounters EXCEPT !["main"] = CountBatch(@, cur)]
            /\ mpc' = "Stop_batch"
    /\ UNCHANGED <<argVars, input, mBlockDepth, mBulkSize, mBlockForced, cont, todo, jidx, stops,
                   threw, handoff, dispVars, workVars, report>>

\* ------------------------------------------------------------------ Stop
\* A mutant of StopDumps: mBlockForced is not consulted.
StopDumps_Always(forced) == TRUE

\* BatchCommandProcessor::Stop: if (!mBlockForced) DumpBatch();
StopDumps(forced) == ~forced

\* A mutant of Stop_Begin: the dispatchers' flags are set before the
\* accumulator dumps its pending batch.
Stop_Begin_FlagFirst ==
    /\ mpc = "idle"
    /\ stops < MaxStops
    /\ stops' = stops + 1
    /\ report' = [report EXCEPT !["input"] = mCounters["main"]]
    /\ cont' = "stop"
    /\ mDone' = [d \in Dispatchers |-> TRUE]
    /\ IF Dumps(StopDumps(mBlockForced), mCommandBatch)
       THEN /\ cur' = CommandBatch(mCommandBatch)
            /\ todo' = DispatcherOrder
            /\ mpc' = "ProcessBatch"
       ELSE /\ mpc' = "Stop_batch"
            /\ UNCHANGED <<cur, todo>>
    /\ UNCHANGED <<argVars, pipeVars, jidx, threw, handoff, mQueue, mQueueMutex, joinable,
                   workVars, mCounters>>

\* ConsoleInput::Stop is CommandProcessor::Stop: DumpCounters, then the
\* accumulator's Stop, which dumps the pending batch unless a block is open.
Stop_Begin ==
    /\ mpc = "idle"
    /\ stops < MaxStops
    /\ stops' = stops + 1
    /\ report' = [report EXCEPT !["input"] = mCounters["main"]]
    /\ cont' = "stop"
    /\ IF Dumps(StopDumps(mBlockForced), mCommandBatch)
       THEN /\ cur' = CommandBatch(mCommandBatch)
            /\ todo' = DispatcherOrder
            /\ mpc' = "ProcessBatch"
       ELSE /\ mpc' = "Stop_batch"
            /\ UNCHANGED <<cur, todo>>
    /\ UNCHANGED <<argVars, pipeVars, jidx, threw, handoff, dispVars, workVars, mCounters>>

\* BatchCommandProcessor::Stop goes on with CommandProcessor::Stop:
\* DumpCounters, then Stop of every dispatcher.
Stop_Batch ==
    /\ mpc = "Stop_batch"
    /\ report' = [report EXCEPT !["batch"] = mCounters["main"]]
    /\ todo' = DispatcherOrder
    /\ mpc' = "Stop_disp"
    /\ UNCHANGED <<argVars, pipeVars, cont, cur, jidx, stops, threw, handoff, dispVars, workVars,
                   mCounters>>

\* ThreadedCommandProcessor::Stop: mDone = true;
Stop_SetDone(d) ==
    /\ mpc = "Stop_disp"
    /\ todo # <<>> /\ d = Head(todo)
    /\ mDone' = [mDone EXCEPT ![d] = TRUE]
    /\ mpc' = "Stop_notify"
    /\ UNCHANGED <<argVars, pipeVars, cont, cur, todo, jidx, stops, threw, handoff, mQueue,
                   mQueueMutex, joinable, workVars, mCounters, report>>

\* mCondition.notify_all();
Stop_Notify(d) ==
    /\ mpc = "Stop_notify"
    /\ d = Head(todo)
    /\ wpc' = NotifyAll(wpc, d)
    /\ jidx' = 1
    /\ mpc' = "Stop_join"
    /\ UNCHANGED <<argVars, pipeVars, cont, cur, todo, stops, threw, handoff, dispVars,
                   queue, wcur, sinkLog, files, mCounters, report>>

\* thread.join() of a thread that is not joinable throws std::system_error.
JoinThrows(isJoinable) == ~isJoinable

\* for (auto& thread : mThreads) thread.join();  The join returns when the
\* thread has ended.  An exception leaves every Stop on the stack and ends in
\* the catch of main.
Stop_Join(d) ==
    /\ mpc = "Stop_join"
    /\ d = Head(todo)
    /\ jidx <= NThreads(d)
    /\ LET w == mThreads(d)[jidx]
       IN IF JoinThrows(joinable[w])
          THEN /\ threw' = TRUE
               /\ mpc' = "terminated"
               /\ UNCHANGED <<jidx, joinable>>
          ELSE /\ wpc[w] = "exited"
               /\ joinable' = [joinable EXCEPT ![w] = FALSE]
               /\ jidx' = jidx + 1
               /\ UNCHANGED <<threw, mpc>>
    /\ UNCHANGED <<argVars, pipeVars, cont, cur, todo, stops, handoff, mQueue, mDone,
                   mQueueMutex, workVars, mCounters, report>>

\* CommandProcessor::Stop() of the dispatcher: DumpCounters; it has no
\* dependents.  Then the accumulator's loop goes to the next dispatcher.
Stop_Joined(d) ==
    /\ mpc = "Stop_join"
    /\ d = Head(todo)
    /\ jidx > NThreads(d)
    /\ report' = [report EXCEPT ![d] = mCounters["main"]]
    /\ todo' = Tail(todo)
    /\ mpc' = "Stop_disp"
    /\ UNCHANGED <<argVars, pipeVars, cont, cur, jidx, stops, threw, handoff, dispVars, workVars,
                   mCounters>>

\* Every dispatcher is stopped: ConsoleInput::Stop returns.
Stop_Ret ==
    /\ mpc = "Stop_disp"
    /\ todo = <<>>
    /\ mpc' = "idle"
    /\ cont' = "line"
    /\ UNCHANGED <<argVars, pipeVars, cur, todo, jidx, stops, threw, handoff, dispVars, workVars,
                   mCounters, report>>

\* ------------------------------- ThreadedCommandProcessor::ThreadProc
\* The wait predicate: !aProcessor->mQueue.empty() || aProcessor->mDone
WaitPredicate(q, done) == q # <<>> \/ done

\* DependentProcessor dependentProcessor(aName); while (!aProcessor->mDone)
ThreadProc_While(w) ==
    /\ wpc[w] = "loop"
    /\ wpc' = [wpc EXCEPT ![w] = IF mDone[DispatcherOf(w)] THEN "stop" ELSE "lock"]
    /\ UNCHANGED <<argVars, pipeVars, mainVars, dispVars, queue, wcur, sinkLog, files,
                   mCounters, report>>

\* unique_lock lk(mQueueMutex), or the lock wait(lk) takes again when it
\* wakes; then wait(lk, pred), which is while (!pred()) wait(lk), evaluates
\* the predicate with the mutex held.
ThreadProc_Lock(w) ==
    /\ wpc[w] \in {"lock", "woken"}
    /\ mQueueMutex[DispatcherOf(w)] = "free"
    /\ mQueueMutex' = [mQueueMutex EXCEPT ![DispatcherOf(w)] = w]
    /\ wpc' = [wpc EXCEPT ![w] =
          IF WaitPredicate(mQueue[DispatcherOf(w)], mDone[DispatcherOf(w)])
          THEN "ProcessQueue" ELSE "wait"]
    /\ UNCHANGED <<argVars, pipeVars, mainVars, mQueue, mDone, joinable, queue, wcur,
                   sinkLog, files, mCounters, report>>

\* The predicate was false: wait(lk) releases the mutex and blocks, in one
\* step.  A notify_all between the evaluation and this step wakes nobody.
ThreadProc_Wait(w) ==
    /\ wpc[w] = "wait"
    /\ mQueueMutex' = [mQueueMutex EXCEPT ![DispatcherOf(w)] = "free"]
    /\ wpc' = [wpc EXCEPT ![w] = "blocked"]
    /\ UNCHANGED <<argVars, pipeVars, mainVars, mQueue, mDone, joinable, queue, wcur,
                   sinkLog, files, mCounters, report>>

\* A condition variable may wake a waiting thread without a notify.
ThreadProc_Spurious(w) ==
    /\ wpc[w] = "blocked"
    /\ wpc' = [wpc EXCEPT ![w] = "woken"]
    /\ UNCHANGED <<argVars, pipeVars, mainVars, dispVars, queue, wcur, sinkLog, files,
                   mCounters, report>>

\* A mutant of ProcessQueue_Swap: the worker copies mQueue and leaves it as
\* it is.
ProcessQueue_Swap_Copy(w) ==
    /\ wpc[w] = "ProcessQueue"
    /\ queue' = [queue EXCEPT ![w] = mQueue[DispatcherOf(w)]]
    /\ mQueueMutex' = [mQueueMutex EXCEPT ![DispatcherOf(w)] = "free"]
    /\ wpc' = [wpc EXCEPT ![w] = "drain"]
    /\ UNCHANGED <<argVars, pipeVars, mainVars, mQueue, mDone, joinable, wcur, sinkLog, files,
                   mCounters, report>>

\* A mutant of ProcessQueue_Swap: lk.unlock() is missing, the worker keeps
\* the mutex while it drains its local queue.
ProcessQueue_Swap_Held(w) ==
    /\ wpc[w] = "ProcessQueue"
    /\ queue' = [queue EXCEPT ![w] = mQueue[DispatcherOf(w)]]
    /\ mQueue' = [mQueue EXCEPT ![DispatcherOf(w)] = <<>>]
    /\ wpc' = [wpc EXCEPT ![w] = "drain"]
    /\ UNCHANGED <<argVars, pipeVars, mainVars, mDone, mQueueMutex, joinable, wcur,
                   sinkLog, files, mCounters, report>>

\* ProcessQueue: std::swap(mQueue, queue); lk.unlock();
ProcessQueue_Swap(w) ==
    /\ wpc[w] = "ProcessQueue"
    /\ queue' = [queue EXCEPT ![w] = mQueue[DispatcherOf(w)]]
    /\ mQueue' = [mQueue EXCEPT ![DispatcherOf(w)] = <<>>]
    /\ mQueueMutex' = [mQueueMutex EXCEPT ![DispatcherOf(w)] = "free"]
    /\ wpc' = [wpc EXCEPT ![w] = "drain"]
    /\ UNCHANGED <<argVars, pipeVars, mainVars, mDone, joinable, wcur, sinkLog, files,
                   mCounters, report>>

\* A mutant of Front: queue.back() for queue.front().
Front_Back(q) == q[Len(q)]

\* auto commandBatch = queue.front();
Front(q) == Head(q)

\* queue.pop();
Pop(q) == Tail(q)

\* while (!queue.empty()) { front; pop; aDependentProcessor.ProcessBatch( }
\* up to the entry of the sink's ProcessBatch.
ProcessQueue_Next(w) ==
    /\ wpc[w] = "drain"
    /\ IF queue[w] = <<>>
       THEN /\ wpc' = [wpc EXCEPT ![w] = "loop"]
            /\ UNCHANGED <<queue, wcur, sinkLog>>
       ELSE /\ wcur' = [wcur EXCEPT ![w] = Front(queue[w])]
            /\ queue' = [queue EXCEPT ![w] = Pop(@)]
            /\ sinkLog' = [sinkLog EXCEPT ![DispatcherOf(w)] =
                              Append(@, <<w, Front(queue[w])>>)]
            /\ wpc' = [wpc EXCEPT ![w] = "sink"]
    /\ UNCHANGED <<argVars, pipeVars, mainVars, dispVars, files, mCounters, report>>

\* Join: the texts of the commands, in order, between ", ".
Join(v) == [i \in 1 .. Len(v) |-> v[i].mText]

\* MakeCommandFromBatch: one command "bulk: " + Join, with the batch's time.
MakeCommandFromBatch(aCommandBatch) ==
    [mText |-> Join(aCommandBatch.mCommands), mTimestamp |-> aCommandBatch.mTimestamp]

\* duration_cast<seconds>(mTimestamp.time_since_epoch()).count(): the clock
\* ticks once per line read, TicksPerSecond lines are read in a second.
Seconds(timestamp) == timestamp \div TicksPerSecond

\* A mutant of GetFilename: the name of the dispatcher for the thread's.
GetFilename_Unnamed(name, c, command) ==
    [mName |-> "file", mBlockCounter |-> c.mBlockCounter,
     seconds |-> Seconds(command.mTimestamp)]

\* ReportWriter::GetFilename: mName-bulk-mBlockCounter-seconds.log, with
\* mName the thread's name and mCounters the thread's Counters.
GetFilename(name, c, command) ==
    [mName |-> name, mBlockCounter |-> c.mBlockCounter,
     seconds |-> Seconds(command.mTimestamp)]

\* The sink of the worker is a ReportWriter (a ConsoleOutput otherwise).
IsReportWriter(w) == DispatcherOf(w) = "file"

\* The sink's ProcessBatch writes the batch (a ReportWriter to the file
\* GetFilename names) and returns through CommandProcessor::ProcessBatch,
\* which counts it in the worker's Counters.
Sink_Return(w) ==
    /\ wpc[w] = "sink"
    /\ files' = IF IsReportWriter(w)
                THEN [files EXCEPT ![w] =
                         Append(@, GetFilename(w, mCounters[w], MakeCommandFromBatch(wcur[w])))]
                ELSE files
    /\ mCounters' = [mCounters EXCEPT ![w] = CountBatch(@, wcur[w])]
    /\ wcur' = [wcur EXCEPT ![w] = NoBatch]
    /\ wpc' = [wpc EXCEPT ![w] = "drain"]
    /\ UNCHANGED <<argVars, pipeVars, mainVars, dispVars, queue, sinkLog, report>>

\* Where a std::exception thrown inside the while loop of ThreadProc is
\* caught: the try block encloses the loop, so the handler runs after it.
CatchTarget == "exited"

\* The sink's ProcessBatch throws (std::bad_alloc from MakeCommandFromBatch,
\* say): the catch of ThreadProc prints e.what() and ThreadProc returns.
Sink_Throw(w) ==
    /\ wpc[w] = "sink"
    /\ wcur' = [wcur EXCEPT ![w] = NoBatch]
    /\ queue' = [queue EXCEPT ![w] = IF CatchTarget = "exited" THEN <<>> ELSE @]
    /\ wpc' = [wpc EXCEPT ![w] = CatchTarget]
    /\ UNCHANGED <<argVars, pipeVars, mainVars, dispVars, sinkLog, files, mCounters, report>>

\* dependentProcessor.Stop(): DumpCounters of the sink; the thread ends.
ThreadProc_Stop(w) ==
    /\ wpc[w] = "stop"
    /\ report' = [report EXCEPT ![w] = mCounters[w]]
    /\ wpc' = [wpc EXCEPT ![w] = "exited"]
    /\ UNCHANGED <<argVars, pipeVars, mainVars, dispVars, queue, wcur, sinkLog, files, mCounters>>

\* ------------------------------------------------------- the whole program
\* The calling thread: RunBulk reads up to maxLines lines and calls Stop.
Main(maxLines) ==
    \/ \E line \in Lines : Len(input) < maxLines /\ ProcessLine(line)
    \/ \E d \in Dispatchers : ProcessBatch_Done(d)
    \/ \E d \in Dispatchers : ProcessBatch_Push(d)
    \/ \E d \in Dispatchers : ProcessBatch_Notify(d)
    \/ DumpBatch_Ret
    \/ Stop_Begin
    \/ Stop_Batch
    \/ \E d \in Dispatchers : Stop_SetDone(d)
    \/ \E d \in Dispatchers : Stop_Notify(d)
    \/ \E d \in Dispatchers : Stop_Join(d)
    \/ \E d \in Dispatchers : Stop_Joined(d)
    \/ Stop_Ret

\* A worker thread: ThreadProc.
Worker(w) ==
    \/ ThreadProc_While(w)
    \/ ThreadProc_Lock(w)
    \/ ThreadProc_Wait(w)
    \/ ProcessQueue_Swap(w)
    \/ ProcessQueue_Next(w)
    \/ Sink_Return(w)
    \/ Sink_Throw(w)
    \/ ThreadProc_Stop(w)

Init == RunBulk(1 .. MaxBulk)

Next ==
    \/ Main(MaxLines)
    \/ \E w \in Workers : Worker(w)
    \/ \E w \in Workers : ThreadProc_Spurious(w)

\* Every interleaving of the calling thread and the worker threads.
Spec == Init /\ [][Next]_vars

\* The calling thread reads nothing that a worker writes: it only waits for
\* a mutex and for the end of a thread.  What it does with a given input
\* (the accumulator's state, the hand-offs, its counters) is therefore the
\* same under every schedule, and PipeSpec follows longer inputs under one
\* schedule: a worker that can run does so before the calling thread goes
\* on, the workers run in the order file0, file1, log0, and no wait wakes
\* without a notify.
PipeInit == RunBulk(1 .. MaxPipeBulk)

WorkersQuiet == ~ENABLED (\E w \in Workers : Worker(w))

RunsBefore(w) ==
    IF w = "file0" THEN {} ELSE IF w = "file1" THEN {"file0"} ELSE {"file0", "file1"}

PipeNext ==
    \/ \E w \in Workers : Worker(w) /\ \A v \in RunsBefore(w) : ~ENABLED Worker(v)
    \/ WorkersQuiet /\ Main(MaxPipeLines)

PipeSpec == PipeInit /\ [][PipeNext]_vars

\* ----------------------------------------------------- main, then RunBulk
\* The process at the entry of main: an argument list, nothing constructed,
\* no thread started.
MainInit ==
    /\ argv \in {<<>>} \cup
                {<<str>> : str \in UNION {[1 .. n -> ArgChars] : n \in 0 .. MaxArgLen}}
    /\ exitCode = NotExited
    /\ mpc = "main"
    /\ input = <<>>
    /\ mBlockDepth = 0
    /\ mBulkSize = 0
    /\ mBlockForced = FALSE
    /\ mCommandBatch = <<>>
    /\ mCounters = [t \in Threads |-> ZeroCounters]
    /\ cont = "line"
    /\ cur = NoBatch
    /\ todo = <<>>
    /\ jidx = 0
    /\ stops = 0
    /\ threw = FALSE
    /\ handoff = [d \in Dispatchers |-> <<>>]
    /\ mQueue = [d \in Dispatchers |-> <<>>]
    /\ mDone = [d \in Dispatchers |-> FALSE]
    /\ mQueueMutex = [d \in Dispatchers |-> "free"]
    /\ joinable = [w \in Workers |-> FALSE]
    /\ wpc = [w \in Workers |-> "unstarted"]
    /\ queue = [w \in Workers |-> <<>>]
    /\ wcur = [w \in Workers |-> NoBatch]
    /\ sinkLog = [d \in Dispatchers |-> <<>>]
    /\ files = [w \in WorkersOf("file") |-> <<>>]
    /\ report = [n \in Nodes |-> NoReport]

\* main: "Bulk size is not specified." or "Invalid bulk size."; return 1.
main_Usage ==
    /\ mpc = "main"
    /\ UsageError(argv)
    /\ exitCode' = <<1>>
    /\ mpc' = "returned"
    /\ UNCHANGED <<argv, pipeVars, cont, cur, todo, jidx, stops, threw, handoff,
                   dispVars, workVars, mCounters, report>>

\* main: RunBulk(bulkSize) up to its loop over the lines: the dispatchers
\* start their threads, the accumulator takes bulkSize as a size_t.
main_RunBulk ==
    /\ mpc = "main"
    /\ ~UsageError(argv)
    /\ mBulkSize' = ToSizeT(atoi(argv[1]))
    /\ joinable' = [w \in Workers |-> TRUE]
    /\ wpc' = [w \in Workers |-> "loop"]
    /\ mpc' = "idle"
    /\ UNCHANGED <<argVars, input, mBlockDepth, mBlockForced, mCommandBatch, cont, cur,
                   todo, jidx, stops, threw, handoff, mQueue, mDone, mQueueMutex,
                   queue, wcur, sinkLog, files, mCounters, report>>

\* consoleInput.Stop() has returned: RunBulk returns and main returns 0.
main_Return ==
    /\ mpc = "idle"
    /\ stops >= 1
    /\ exitCode' = <<0>>
    /\ mpc' = "returned"
    /\ UNCHANGED <<argv, pipeVars, cont, cur, todo, jidx, stops, threw, handoff,
                   dispVars, workVars, mCounters, report>>

\* RunBulk reads its lines and then calls consoleInput.Stop() once.
RunBulk_Step ==
    /\ WorkersQuiet
    /\ Main(MaxMainLines)
    /\ stops >= 1 => (input' = input /\ stops' = stops)

\* The whole process, the threads scheduled as in PipeSpec.
MainNext ==
    \/ main_Usage
    \/ main_RunBulk
    \/ RunBulk_Step
    \/ \E w \in Workers : Worker(w) /\ \A v \in RunsBefore(w) : ~ENABLED Worker(v)
    \/ main_Return

MainSpec == MainInit /\ [][MainNext]_vars

\* ================================================================= claims
\* The worker left ThreadProc through dependentProcessor.Stop(), not through
\* the catch.
ExitedByStop(w) == wpc[w] = "exited" /\ report[w] # NoReport

\* ThreadedCommandProcessor::Stop of d has joined every thread.
StopReturned(d) == mDone[d] /\ \A w \in WorkersOf(d) : ~joinable[w]

\* The calling thread is inside ThreadedCommandProcessor::Stop of d.
InStop(d) == mpc \in {"Stop_notify", "Stop_join"} /\ Head(todo) = d

\* The place of a batch among the batches handed to dispatcher d.
Pos(d, batch) == CHOOSE i \in 1 .. Len(handoff[d]) : handoff[d][i] = batch

\* C1: when the workers of a dispatcher have left ThreadProc (none of them
\* through a failed sink call), every batch that ProcessBatch pushed onto
\* mQueue before Stop set the flag has been taken off it and passed to a
\* sink: the queue is empty.  The code loses a batch that is pushed while
\* every worker is outside the wait (not yet in the loop, or busy with an
\* earlier drain): such a worker tests mDone next and leaves without a drain.
C1_NoBatchLost ==
    \A d \in Dispatchers :
        (\A w \in WorkersOf(d) : ExitedByStop(w)) => mQueue[d] = <<>>

\* C2: once Stop has set the flag and until it has joined every thread, the
\* calling thread or a worker of the dispatcher can take a step, so that
\* under a fair schedule the workers go on to exit and Stop returns.  The
\* code can stop for good: a worker that found the predicate false is not
\* yet waiting when notify_all is issued, then blocks, and Stop waits in
\* join for a thread that only a spurious wake-up would release.
C2_StopNeverStuck ==
    \A d \in Dispatchers :
        InStop(d) => ENABLED (Main(MaxLines) \/ \E w \in WorkersOf(d) : Worker(w))

\* C6 as claimed: the sink calls of a dispatcher start in the order in which
\* its batches were handed to it, whatever its number of workers.
C6_DispatcherFifo ==
    \A d \in Dispatchers : \A i, j \in 1 .. Len(sinkLog[d]) :
        i < j => Pos(d, sinkLog[d][i][2]) < Pos(d, sinkLog[d][j][2])

\* C6 as amended: the sink calls of one worker thread start in the order in
\* which their batches were handed to the dispatcher; a dispatcher with one
\* worker therefore processes all its batches in submission order.
C6_WorkerFifo ==
    \A d \in Dispatchers : \A i, j \in 1 .. Len(sinkLog[d]) :
        (i < j /\ (NThreads(d) = 1 \/ sinkLog[d][i][1] = sinkLog[d][j][1]))
            => Pos(d, sinkLog[d][i][2]) < Pos(d, sinkLog[d][j][2])

\* A worker of the two-worker dispatcher has started two sink calls.
C6_Witness ==
    \E i, j \in 1 .. Len(sinkLog["file"]) :
        i < j /\ sinkLog["file"][i][1] = sinkLog["file"][j][1]

\* C7: a second call of Stop completes without error: no exception leaves it.
\* In the code the second ThreadedCommandProcessor::Stop joins threads that
\* the first call joined, and join throws std::system_error.
C7_SecondStopNoError == stops >= 2 => ~threw /\ mpc # "terminated"

\* C8: once Stop of a dispatcher has returned, its queue and the sink calls
\* of its workers never change again, and a call of its ProcessBatch (a
\* hand-off) changes no counter and wakes no thread.
C8_NoOpAfterStop ==
    [][\A d \in Dispatchers :
          StopReturned(d) =>
              /\ mQueue'[d] = mQueue[d]
              /\ sinkLog'[d] = sinkLog[d]
              /\ handoff'[d] # handoff[d] =>
                    /\ mCounters' = mCounters
                    /\ wpc' = wpc
                    /\ mpc' = "ProcessBatch"]_vars

\* Both dispatchers have had ProcessBatch called after their Stop returned.
C8_Witness ==
    /\ stops >= 1 /\ cont = "line" /\ mpc = "ProcessBatch" /\ todo = <<>>
    /\ \A d \in Dispatchers : StopReturned(d) /\ handoff[d] # <<>> /\ mQueue[d] = <<>>

\* C9: when a sink call of a worker ends, by a return or by an exception,
\* the worker is back in the loop of ProcessQueue and goes on with the
\* batches it drained.  In the code the try block of ThreadProc encloses the
\* while loop: an exception ends the thread.
C9_WorkerSurvivesFailure ==
    [][\A w \in Workers : (wpc[w] = "sink" /\ wpc'[w] # "sink") => wpc'[w] = "drain"]_vars

\* ------------------------------------------------ the accumulator's claims
\* The commands ConsoleInput makes of the first n lines of inp, in order.
RECURSIVE CommandsOf(_, _)
CommandsOf(inp, n) ==
    IF n = 0 THEN <<>>
    ELSE IF IsCommand(inp[n]) THEN Append(CommandsOf(inp, n - 1), Command(inp[n], n))
    ELSE CommandsOf(inp, n - 1)

\* The commands of a sequence of batches, batch after batch.
RECURSIVE Flatten(_)
Flatten(batches) ==
    IF batches = <<>> THEN <<>> ELSE Head(batches).mCommands \o Flatten(Tail(batches))

NoMarkers == \A i \in 1 .. Len(input) : IsCommand(input[i])

\* Commands number from, from + 1, ..., from + n - 1 of an input of commands.
CommandRun(from, n) == [i \in 1 .. n |-> Command("cmd", from + i - 1)]

\* The batches of bulkSize commands that n commands fill.
FullBatches(n, bulkSize) ==
    [j \in 1 .. (n \div bulkSize) |-> CommandBatch(CommandRun((j - 1) * bulkSize + 1, bulkSize))]

\* The commands left over.
Remainder(n, bulkSize) == CommandRun((n \div bulkSize) * bulkSize + 1, n % bulkSize)

\* The calling thread is in its first Stop and the accumulator's Stop has
\* done its DumpBatch.
FirstStopFlushed == stops = 1 /\ mpc = "Stop_batch"

\* C3: for an input of n commands and no block marker, the accumulator has
\* handed to every dispatcher, after each line, the n div bulkSize batches
\* of the commands (j-1)*bulkSize+1 .. j*bulkSize and holds the n mod
\* bulkSize commands left; its Stop hands over those as one more batch when
\* there are any, and no batch when there are none.
C3_SizeFlush ==
    NoMarkers =>
        LET n == Len(input)
            full == FullBatches(n, mBulkSize)
            rest == Remainder(n, mBulkSize)
        IN /\ (stops = 0 /\ mpc = "idle") =>
                 /\ \A d \in Dispatchers : handoff[d] = full
                 /\ mCommandBatch = rest
           /\ FirstStopFlushed =>
                 \A d \in Dispatchers :
                     handoff[d] = IF rest = <<>> THEN full
                                  ELSE Append(full, CommandBatch(rest))

\* bulkSize 3 and four commands: {1,2,3}, then {4} at Stop.
C3_Witness ==
    /\ NoMarkers /\ FirstStopFlushed /\ mBulkSize = 3 /\ Len(input) = 4
    /\ Len(handoff["file"]) = 2 /\ Size(handoff["file"][2]) = 1

\* C4: a "{" read at depth >= 1 emits no block-start event: the line makes
\* DumpBatch hand over nothing, so the commands read since the outermost
\* "{" stay pending.  In the code every "{" that leaves the depth positive
\* calls StartBlock, and the accumulator dumps what is pending.
C4_InnerOpenNoFlush ==
    [][(Len(input') > Len(input) /\ input'[Len(input')] = "{" /\ mBlockDepth >= 1)
          => (mpc' = "idle" /\ cur' = NoBatch /\ mCommandBatch' = mCommandBatch)]_vars

\* C5: when the input leaves the block depth at 0 and Stop is called once,
\* the batches handed to a dispatcher hold, one after the other, exactly
\* the commands of the input in input order, and every dispatcher was
\* handed the same batches.
C5_OrderPreserved ==
    (FirstStopFlushed /\ mBlockDepth = 0) =>
        \A d \in Dispatchers :
            /\ Flatten(handoff[d]) = CommandsOf(input, Len(input))
            /\ handoff[d] = handoff["file"]

\* A block, commands around it, and more than one batch.
C5_Witness ==
    /\ FirstStopFlushed /\ mBlockDepth = 0
    /\ Len(input) >= 4 /\ \E i \in 1 .. Len(input) : input[i] = "{"
    /\ Len(handoff["log"]) >= 3

\* The input so far is "{", k commands and, when closed, "}".
OneBlock(k, closed) ==
    /\ Len(input) = k + 1 + (IF closed THEN 1 ELSE 0)
    /\ input[1] = "{"
    /\ \A i \in 2 .. k + 1 : IsCommand(input[i])
    /\ closed => input[k + 2] = "}"

\* C10: a command read while mBlockForced is true makes ProcessCommand hand
\* over nothing; and for the input "{", c1 .. ck, "}" with k >= 1 nothing is
\* handed over before the "}" and exactly the one batch {c1 .. ck} at it,
\* whether k is below bulkSize or not.
C10_BlockNotSized ==
    /\ [][(mBlockForced /\ Len(input') > Len(input) /\ IsCommand(input'[Len(input')]))
             => (mpc' = "idle" /\ handoff' = handoff /\ cur' = NoBatch)]_vars
    /\ [](\A k \in 1 .. Len(input) :
             /\ (OneBlock(k, FALSE) /\ stops = 0) =>
                    \A d \in Dispatchers : handoff[d] = <<>>
             /\ (OneBlock(k, TRUE) /\ stops = 0 /\ mpc = "idle") =>
                    \A d \in Dispatchers :
                        handoff[d] = <<CommandBatch(CommandRun(2, k))>>)

\* A block of three commands with bulkSize 2, closed and dumped.
C10_Witness ==
    /\ OneBlock(3, TRUE) /\ stops = 0 /\ mpc = "idle" /\ mBulkSize = 2
    /\ Len(handoff["file"]) = 1 /\ Size(handoff["file"][1]) = 3

\* The calling thread is inside DumpBatch: CommandProcessor::ProcessBatch of
\* the accumulator is calling the dispatchers.
InDumpBatch == mpc \in {"ProcessBatch", "notify"}

\* The command is in a batch that some dispatcher's ProcessBatch was called
\* with.
HandedOver(c) ==
    \E d \in Dispatchers : \E i \in 1 .. Len(handoff[d]) :
        \E j \in 1 .. Size(handoff[d][i]) : handoff[d][i].mCommands[j] = c

\* C11: a call of Stop made while mBlockForced is true hands no batch to any
\* dispatcher and leaves the pending commands where they are: as long as the
\* call runs, none of them is in a batch a dispatcher was called with.  A
\* call of Stop made while mBlockForced is false and commands are pending
\* makes one batch of all of them, calls every dispatcher with it and leaves
\* nothing pending, and only then goes on to DumpCounters and the Stop of
\* the dispatchers: during the first Stop no mDone is set before that point.
C11_StopFlush ==
    /\ [][(mpc = "idle" /\ stops' = stops + 1) =>
             IF mBlockForced \/ mCommandBatch = <<>>
             THEN /\ mpc' = "Stop_batch" /\ cur' = NoBatch
                  /\ handoff' = handoff /\ mCommandBatch' = mCommandBatch
             ELSE /\ mpc' = "ProcessBatch" /\ cur' = CommandBatch(mCommandBatch)
                  /\ todo' = DispatcherOrder]_vars
    /\ [][(cont = "stop" /\ InDumpBatch /\ mpc' = "Stop_batch") =>
             /\ mCommandBatch' = <<>>
             /\ \A d \in Dispatchers :
                    handoff[d] # <<>> /\ handoff[d][Len(handoff[d])] = cur]_vars
    /\ [](cont = "stop" =>
             /\ mBlockForced =>
                    /\ ~InDumpBatch
                    /\ \A i \in 1 .. Len(mCommandBatch) : ~HandedOver(mCommandBatch[i])
             /\ (stops = 1 /\ (InDumpBatch \/ mpc = "Stop_batch")) =>
                    \A d \in Dispatchers : ~mDone[d])

\* A first Stop outside a block has handed over the one pending command;
\* a second Stop finds a block open with a command pending and leaves it.
C11_Witness ==
    /\ stops = 2 /\ cont = "stop" /\ mpc = "Stop_batch"
    /\ mBlockForced /\ mCommandBatch # <<>> /\ mBulkSize = 2
    /\ Len(input) = 3 /\ input[1] = "cmd" /\ input[2] = "{"
    /\ \A d \in Dispatchers : Len(handoff[d]) = 1

\* ------------------------------------------------- the counters' claims
\* The calling thread is inside its first call of ConsoleInput::Stop.
InFirstStop == stops = 1 /\ cont = "stop"

\* C12: the lines counter that the ConsoleInput node prints is the number
\* of calls of ConsoleInput::ProcessLine made before.  In the code mCounters
\* is thread_local static: ConsoleInput, the accumulator and both
\* dispatchers run CommandProcessor::ProcessLine on the calling thread and
\* each adds one to the same counter, so the node prints four per line.
C12_LinesPerNode ==
    (InFirstStop /\ report["input"] # NoReport) =>
        report["input"].mLineCounter = Len(input)

\* C13: the blocks counter that the accumulator node prints is the number
\* of batches it handed to its dispatchers.  In the code the counter is the
\* one of the calling thread: CommandProcessor::StartBlock of ConsoleInput
\* and CommandProcessor::ProcessBatch of every dispatcher add to it too.
C13_BlocksPerFlush ==
    (InFirstStop /\ report["batch"] # NoReport) =>
        \A d \in Dispatchers : report["batch"].mBlockCounter = Len(handoff[d])

\* C14: a node has printed its counters only when the shutdown is complete:
\* the accumulator is not about to dump or dumping its last batch, and every
\* worker thread has been joined.  In the code CommandProcessor::Stop calls
\* DumpCounters before it calls Stop of its dependents: ConsoleInput prints
\* before the accumulator's Stop has run, the accumulator before any
\* dispatcher is stopped, a worker when it leaves its loop.
C14_ReportAfterShutdown ==
    \A n \in Nodes :
        (InFirstStop /\ report[n] # NoReport) =>
            /\ ~InDumpBatch
            /\ \A w \in Workers : ~joinable[w]

\* C15: in the first call of ConsoleInput::Stop the accumulator's DumpBatch
\* comes before the Stop of any dispatcher: while the accumulator is calling
\* the dispatchers with its last batch no mDone is set, every such call
\* pushes the batch onto mQueue (none returns at the test of mDone), and
\* when the first flag is set nothing is left to dump.
C15_FlushBeforeStop ==
    /\ [][(InFirstStop /\ handoff' # handoff) =>
             \A d \in Dispatchers :
                 handoff'[d] # handoff[d] =>
                     /\ ~mDone[d]
                     /\ handoff'[d] = Append(handoff[d], cur)
                     /\ mQueue'[d] = Append(mQueue[d], cur)]_vars
    /\ [](InFirstStop =>
             /\ InDumpBatch => \A d \in Dispatchers : ~mDone[d]
             /\ (\E d \in Dispatchers : mDone[d]) =>
                    /\ cur = NoBatch
                    /\ mBlockForced \/ mCommandBatch = <<>>)

\* The first Stop found one command pending with bulkSize 2, every
\* dispatcher was called with that batch, and a stop flag is now set.
C15_Witness ==
    /\ InFirstStop /\ mBulkSize = 2 /\ input = <<"cmd">>
    /\ \A d \in Dispatchers : Len(handoff[d]) = 1 /\ Size(handoff[d][1]) = 1
    /\ mDone["file"] /\ mCommandBatch = <<>>

\* ------------------------------------------------- the dispatcher's claims
\* The worker is between lk.unlock() and the end of ProcessQueue: draining
\* its local queue or inside a sink call.
Draining(w) == wpc[w] \in {"drain", "sink"}

\* C16: a worker that is draining its local queue or is inside a sink call
\* does not hold mQueueMutex: whoever holds it is at the wait predicate or
\* at the swap.  mQueue changes only in a step of the thread that has the
\* mutex: the swap of a worker that holds it, or the push of the calling
\* thread, which takes the free mutex for the push.  So the push of the
\* calling thread can be taken whenever no worker is at the predicate or the
\* swap, however long a sink call lasts.
C16_NoLockInSink ==
    /\ [](\A d \in Dispatchers :
             /\ \A w \in WorkersOf(d) : Draining(w) => mQueueMutex[d] # w
             /\ mQueueMutex[d] # "free" =>
                    /\ mQueueMutex[d] \in WorkersOf(d)
                    /\ wpc[mQueueMutex[d]] \in {"ProcessQueue", "wait"}
             /\ (mpc = "ProcessBatch" /\ todo # <<>> /\ Head(todo) = d /\ ~mDone[d]
                    /\ \A w \in WorkersOf(d) : wpc[w] \notin {"ProcessQueue", "wait"})
                   => ENABLED ProcessBatch_Push(d))
    /\ [][\A d \in Dispatchers :
             mQueue'[d] # mQueue[d] =>
                 \/ /\ mQueueMutex[d] \in WorkersOf(d)
                    /\ wpc[mQueueMutex[d]] = "ProcessQueue"
                    /\ wpc'[mQueueMutex[d]] = "drain"
                    /\ mQueueMutex'[d] = "free"
                 \/ /\ mQueueMutex[d] = "free"
                    /\ mpc = "ProcessBatch" /\ mpc' = "notify"
                    /\ mQueue'[d] = Append(mQueue[d], cur)]_vars

\* The calling thread has pushed a batch onto the queue of the file
\* dispatcher while a worker of that dispatcher is inside a sink call.
C16_Witness ==
    /\ mpc = "notify" /\ Head(todo) = "file"
    /\ mQueue["file"] # <<>>
    /\ \E w \in WorkersOf("file") : wpc[w] = "sink"

\* How many times the batch occurs in a sequence of batches.
RECURSIVE Occurrences(_, _)
Occurrences(batch, batches) ==
    IF batches = <<>> THEN 0
    ELSE (IF Head(batches) = batch THEN 1 ELSE 0) + Occurrences(batch, Tail(batches))

\* The batches of the sink calls of dispatcher d, in the order of their start.
SinkBatches(d) == [i \in 1 .. Len(sinkLog[d]) |-> sinkLog[d][i][2]]

\* The local queues of the workers of d, one after the other.
LocalQueues(d) == queue[mThreads(d)[1]] \o
                  (IF NThreads(d) >= 2 THEN queue[mThreads(d)[2]] ELSE <<>>)

\* C17: a batch a dispatcher was called with is, in every state, at most
\* once in mQueue, the local queues of its workers and its sink calls taken
\* together: it is on one queue or was passed to one sink call, never both
\* and never twice, whatever the interleaving of the workers' drains.
C17_AtMostOnce ==
    \A d \in Dispatchers : \A i \in 1 .. Len(handoff[d]) :
        Occurrences(handoff[d][i], mQueue[d] \o LocalQueues(d) \o SinkBatches(d)) <= 1

\* Both workers of the file dispatcher have started a sink call.
C17_Witness ==
    \E i, j \in 1 .. Len(sinkLog["file"]) :
        sinkLog["file"][i][1] = "file0" /\ sinkLog["file"][j][1] = "file1"

\* ------------------------------------------------------ blocks and batches
\* The block depth after the first n lines of inp.
RECURSIVE Depth(_, _)
Depth(inp, n) == IF n = 0 THEN 0 ELSE DepthAfter(inp[n], Depth(inp, n - 1))

DepthNeverNegative == \A n \in 0 .. Len(input) : Depth(input, n) >= 0

\* The command was read while a block was open.  Its mTimestamp is the
\* number of its line.
InBlock(c) == Depth(input, c.mTimestamp - 1) > 0

\* The commands are all from inside blocks or all from outside.
Unmixed(commands) ==
    \A i, j \in 1 .. Len(commands) : InBlock(commands[i]) <=> InBlock(commands[j])

\* The last line was a "{" read at depth 0 or a "}" that closed the
\* outermost block, and ProcessLine has returned.
AtBlockEdge ==
    /\ mpc = "idle" /\ cont = "line" /\ Len(input) >= 1
    /\ \/ input[Len(input)] = "{" /\ Depth(input, Len(input)) = 1
       \/ input[Len(input)] = "}" /\ Depth(input, Len(input)) = 0

\* C18: when the depth never goes negative, every batch a dispatcher was
\* called with, the batch being dumped and the pending commands each hold
\* commands read outside blocks only or inside blocks only; and once the
\* "{" that opens the outermost block or the "}" that closes it has been
\* processed nothing is pending, whatever bulkSize is.
C18_BlockBoundary ==
    DepthNeverNegative =>
        /\ \A d \in Dispatchers : \A i \in 1 .. Len(handoff[d]) :
               Unmixed(handoff[d][i].mCommands)
        /\ Unmixed(cur.mCommands)
        /\ Unmixed(mCommandBatch)
        /\ AtBlockEdge => mCommandBatch = <<>>

\* bulkSize 3: one command, a block of one command, one more command; the
\* first two were dumped as batches of one at the "{" and at the "}".
C18_Witness ==
    /\ mBulkSize = 3 /\ input = <<"cmd", "{", "cmd", "}", "cmd">>
    /\ mpc = "idle" /\ stops = 0
    /\ \A d \in Dispatchers :
           Len(handoff[d]) = 2 /\ Size(handoff[d][1]) = 1 /\ Size(handoff[d][2]) = 1
    /\ Len(mCommandBatch) = 1

\* ------------------------------------------------------- ReportWriter files
\* C19: the files the ReportWriter threads have opened differ pairwise in
\* the pair (mName, mBlockCounter) of their names, whichever thread wrote
\* which batch: two files of one thread carry different counter values, the
\* later file the larger one, and files of two threads carry different
\* thread names.
C19_DistinctFilenames ==
    /\ \A w \in WorkersOf("file") : \A i, j \in 1 .. Len(files[w]) :
           i < j => files[w][i].mBlockCounter < files[w][j].mBlockCounter
    /\ \A v, w \in WorkersOf("file") :
           \A i \in 1 .. Len(files[v]) : \A j \in 1 .. Len(files[w]) :
               (v # w \/ i # j) =>
                   <<files[v][i].mName, files[v][i].mBlockCounter>> #
                   <<files[w][j].mName, files[w][j].mBlockCounter>>

\* One ReportWriter thread has written two files.
C19_Witness ==
    \E w \in WorkersOf("file") :
        /\ Len(files[w]) = 2
        /\ files[w][1].mBlockCounter = 0 /\ files[w][2].mBlockCounter = 1

\* ---------------------------------------------------------------- main
\* RunBulk has built the pipeline.
Built == \E w \in Workers : wpc[w] # "unstarted"

\* C20: when the bulk-size argument is missing or its integer value is 0
\* or below, main returns 1 and RunBulk never builds the pipeline; so a
\* pipeline that is built has a bulk size above 0, the argument's value.
\* The code tests bulkSize == 0 only: a negative value goes to RunBulk and
\* the accumulator's size_t mBulkSize becomes the value modulo 2^64.
C20_BulkSizeChecked ==
    /\ (IF NoArgument(argv) THEN TRUE ELSE atoi(argv[1]) <= 0) =>
           /\ ~Built
           /\ mpc # "main" => exitCode = <<1>>
    /\ Built => mBulkSize = atoi(argv[1]) /\ mBulkSize > 0

====
